---- MODULE Spec2Model ----
(***************************************************************************)
(* Path-builder form (PathForm in client/components/forms/PoolForm.tsx)    *)
(* together with the token-info cache it reads through                     *)
(* (utils/tokenInfo.ts) and the pool-token reader (utils/poolTokens.ts).   *)
(*                                                                         *)
(* React state is modelled by one variable per useState/useRef cell.  An   *)
(* event handler together with the effects its state updates trigger       *)
(* (validate-all / reset isVerified, background token-info scan) is one    *)
(* action; every await is a task in `tasks` that settles in a later        *)
(* action, carrying the values its closure captured when it was started.   *)
(* Indices are 1-based here (0-based in the source).                       *)
(***************************************************************************)
EXTENDS Integers, Sequences, FiniteSets, Bags, TLC

\* ------------------------------------------------------------------ bounds
MaxChains == 2
MaxPools == 1
MaxHops == 2
MaxEdits == 2
MaxClicks == 2

\* ------------------------------------------------------ addresses / chain
\* Lower-case token addresses that exist on chain.
Tokens == {"0xa", "0xb", "0xc"}
\* What the operator may type as an anchor token ("0xA" is the checksummed
\* spelling of "0xa", " " is white space only).
AnchorInputs == {"", " ", "0xA", "0xb"}
\* What the operator may type as a pool address ("0x12" is a partial entry).
PoolInputs == {"", "0xp1", "0xp2", "0x12"}
\* chain ids of the networks returned by networksApi.getAll()
Networks == {1}

\* String.prototype.toLowerCase on the address alphabet used here
Lower(s) ==
  CASE s = "0xA" -> "0xa"
    [] s = "0xB" -> "0xb"
    [] s = "0xC" -> "0xc"
    [] OTHER -> s

\* String.prototype.trim (" " is the one input that carries white space)
Trim(s) == IF s = " " THEN "" ELSE s

\* viem isAddress: 0x + 40 hex digits (checksum-correct when mixed case)
isAddress(s) == s \in {"0xa", "0xb", "0xc", "0xA", "0xB", "0xC", "0xp1", "0xp2"}

\* s && s.startsWith("0x") && s.length === 42
LooksLikeAddress(s) == isAddress(s)

\* s.length < 42
ShorterThanAddress(s) == s \in {"", "0x12"}

\* token0()/token1() of the pool contracts deployed on chain
PoolTokens(pool) ==
  CASE pool = "0xp1" -> [token0 |-> "0xa", token1 |-> "0xb"]
    [] pool = "0xp2" -> [token0 |-> "0xB", token1 |-> "0xc"]
    [] OTHER -> [token0 |-> "", token1 |-> ""]

\* message of the error fetchPoolTokens throws when every endpoint failed
PoolFetchError == "Failed to fetch pool tokens from all RPC endpoints"

\* ------------------------------------------------------------- document
EmptyHop == [pool |-> "", token_in |-> "", token_out |-> ""]
NewChainPath == [chain_id |-> 0, anchor_token |-> "", paths |-> <<>>]

AllKeys == (1..MaxChains) \X (1..MaxPools) \X (1..MaxHops)

HopKeys(doc) ==
  {k \in AllKeys :
     /\ k[1] <= Len(doc)
     /\ k[2] <= Len(doc[k[1]].paths)
     /\ k[3] <= Len(doc[k[1]].paths[k[2]])}

HopAt(doc, k) == doc[k[1]].paths[k[2]][k[3]]

RemoveAt(s, i) == SubSeq(s, 1, i - 1) \o SubSeq(s, i + 1, Len(s))

SetHop(doc, k, hop) ==
  [doc EXCEPT ![k[1]] = [@ EXCEPT !.paths = [@ EXCEPT ![k[2]] = [@ EXCEPT ![k[3]] = hop]]]]

\* ------------------------------------------------ token-flow validation
\* TokenFlowMismatch comparing the addresses as written, without toLowerCase
TokenFlowMismatch_CaseSensitive(chainPath, poolPath, directionIndex) ==
  LET direction == poolPath[directionIndex] IN
  IF directionIndex = 1
  THEN IF chainPath.anchor_token # "" /\ direction.token_in # ""
          /\ chainPath.anchor_token # direction.token_in
       THEN "Token In must match Anchor Token (" \o chainPath.anchor_token \o ")"
       ELSE ""
  ELSE LET prevDirection == poolPath[directionIndex - 1] IN
       IF prevDirection.token_out # "" /\ direction.token_in # ""
          /\ prevDirection.token_out # direction.token_in
       THEN "Token In must match previous Token Out (" \o prevDirection.token_out \o ")"
       ELSE ""

\* validateTokenFlow, lines 543-561: the message computed for a hop whose
\* token_in and token_out are both set.
TokenFlowMismatch(chainPath, poolPath, directionIndex) ==
  LET direction == poolPath[directionIndex] IN
  IF directionIndex = 1
  THEN LET anchorToken == Lower(chainPath.anchor_token)
           tokenIn == Lower(direction.token_in)
       IN IF anchorToken # "" /\ tokenIn # "" /\ anchorToken # tokenIn
          THEN "Token In must match Anchor Token (" \o chainPath.anchor_token \o ")"
          ELSE ""
  ELSE LET prevDirection == poolPath[directionIndex - 1]
           prevTokenOut == Lower(prevDirection.token_out)
           currentTokenIn == Lower(direction.token_in)
       IN IF prevTokenOut # "" /\ currentTokenIn # "" /\ prevTokenOut # currentTokenIn
          THEN "Token In must match previous Token Out (" \o prevDirection.token_out \o ")"
          ELSE ""

\* the value validateTokenFlow stores under the hop's key
TokenFlowError(doc, k) ==
  LET direction == HopAt(doc, k) IN
  IF direction.token_in = "" \/ direction.token_out = ""
  THEN ""
  ELSE TokenFlowMismatch(doc[k[1]], doc[k[1]].paths[k[2]], k[3])

\* the effect on [formData.paths] without its validation sweep
ValidateAll_Skipped(doc, verrs) == verrs

\* validateTokenFlow(chainIndex, poolIndex, directionIndex) run against
\* formDataRef.current = doc; returns the new validationErrors
validateTokenFlow(doc, verrs, k) ==
  IF k \notin HopKeys(doc) THEN verrs
  ELSE [verrs EXCEPT ![k] = TokenFlowError(doc, k)]

\* the effect on [formData.paths]: validateTokenFlow for every hop
ValidateAll(doc, verrs) ==
  [k \in AllKeys |-> IF k \in HopKeys(doc) THEN TokenFlowError(doc, k) ELSE verrs[k]]

\* ---------------------------------------------------------- orientation
\* handlePoolAddressChange, lines 671-704.  anchor_token and prev_token_out
\* are chainPath.anchor_token and poolPath[directionIndex-1].token_out of
\* the formData the handler closed over.
OrientAtSetPool(tokens, anchor_token, prev_token_out, directionIndex) ==
  LET dflt == [token_in |-> tokens.token0, token_out |-> tokens.token1]
      swap == [token_in |-> tokens.token1, token_out |-> tokens.token0]
  IN IF directionIndex = 1
     THEN LET anchorToken == Lower(anchor_token) IN
          IF anchorToken # ""
          THEN IF Lower(tokens.token1) = anchorToken THEN swap
               ELSE IF Lower(tokens.token0) # anchorToken THEN dflt
               ELSE dflt
          ELSE dflt
     ELSE LET prevTokenOut == Lower(prev_token_out) IN
          IF prevTokenOut # ""
          THEN IF Lower(tokens.token1) = prevTokenOut THEN swap
               ELSE IF Lower(tokens.token0) # prevTokenOut THEN dflt
               ELSE dflt
          ELSE dflt

\* OrientAtVerify comparing the addresses as written, without toLowerCase
OrientAtVerify_CaseSensitive(tokens, anchor_token, prev_token_out, dirIndex) ==
  LET dflt == [token_in |-> tokens.token0, token_out |-> tokens.token1]
      swap == [token_in |-> tokens.token1, token_out |-> tokens.token0]
      expected == IF dirIndex = 1 THEN anchor_token ELSE prev_token_out
  IN IF expected # "" /\ tokens.token1 = expected THEN swap ELSE dflt

\* handleVerifyChainPath, lines 1105-1134
OrientAtVerify(tokens, anchor_token, prev_token_out, dirIndex) ==
  LET dflt == [token_in |-> tokens.token0, token_out |-> tokens.token1]
      swap == [token_in |-> tokens.token1, token_out |-> tokens.token0]
  IN IF dirIndex = 1
     THEN LET anchorToken == Lower(anchor_token) IN
          IF anchorToken # ""
          THEN IF Lower(tokens.token1) = anchorToken THEN swap
               ELSE IF Lower(tokens.token0) # anchorToken THEN dflt
               ELSE dflt
          ELSE dflt
     ELSE LET prevTokenOut == Lower(prev_token_out) IN
          IF prevTokenOut # ""
          THEN IF Lower(tokens.token1) = prevTokenOut THEN swap
               ELSE IF Lower(tokens.token0) # prevTokenOut THEN dflt
               ELSE dflt
          ELSE dflt

\* fetchPoolTokens on success: both addresses lower-cased
ResolvedTokens(pool) ==
  [token0 |-> Lower(PoolTokens(pool).token0), token1 |-> Lower(PoolTokens(pool).token1)]

\* ------------------------------------------------------------------ state
VARIABLES
  formData,                 \* formData.paths: sequence of chain paths
  validationErrors,         \* per-hop message, "" when none
  chainErrors,              \* per-chain-path message, "" when none
  addressValidationErrors,  \* set of field keys flagged "Invalid Ethereum address format"
  verificationErrors,       \* set of hop keys whose pool fetch failed in a Verify
  loadingPools,             \* set of hop keys whose loading flag is true
  tokenInfoMap,             \* the form's token-info state (tokenInfoMapRef.current)
  tokenInfoCache,           \* the module-level cache of utils/tokenInfo.ts
  fetchingTokens,           \* fetchingTokensRef.current
  isVerified,
  isVerifying,
  verifyingChainPath,       \* 0 = null
  tasks,                    \* bag of unsettled on-chain reads
  passes,                   \* handleVerifyChainPath calls awaiting Promise.allSettled
  verifyAllDoc,             \* formData.paths closed over by the running handleVerifyAll
  submitCount,              \* number of onSubmit calls
  submitted,                \* argument of the last onSubmit call
  edits, clicks,            \* edits made / Verify and Save buttons pressed so far
  verifiedSinceEdit,        \* history: "verifying" / "verified" while no edit was made since the
                            \* Submit that started the running / last successful Verify all
  last,                     \* history: the step taken last (for a settled pool read: its hop
                            \* indices and pool address)
  pureIn, pureOut           \* inputs / results of the pure-function specifications

formVars == <<formData, validationErrors, chainErrors, addressValidationErrors,
              verificationErrors, loadingPools, tokenInfoMap, tokenInfoCache,
              fetchingTokens, isVerified, isVerifying, verifyingChainPath, tasks,
              passes, verifyAllDoc, submitCount, submitted, edits, clicks,
              verifiedSinceEdit, last>>
pureVars == <<pureIn, pureOut>>
vars == <<formVars, pureVars>>

TokenKeys == Networks \X Tokens
NoKey == <<0, 0, 0>>

TokenKey(chain_id, address) == <<chain_id, Lower(address)>>

\* map[key] as JavaScript reads it: undefined ("absent") for a key never set
InfoOf(map, key) == IF key \in DOMAIN map THEN map[key] ELSE "absent"

InfoTask(key, always, pass) ==
  [kind |-> "info", key |-> key, always |-> always, pass |-> pass, k |-> NoKey,
   pool |-> "", site |-> "", anchor |-> "", prev |-> "", snapInfo |-> {}]

PoolTask(site, k, pool, chain_id, anchor, prev, snapInfo, pass) ==
  [kind |-> "pool", key |-> <<chain_id, "">>, always |-> FALSE, pass |-> pass, k |-> k,
   pool |-> pool, site |-> site, anchor |-> anchor, prev |-> prev, snapInfo |-> snapInfo]

StepX(op, k, x) == [op |-> op, k |-> k, x |-> x]
Step(op, k) == StepX(op, k, "")

\* cnt[key] calls of fetchTokenInfo are started (fetchingTokensRef.add, then
\* fetchTokenInfo(...).then(store; fetchingTokensRef.delete)).  fetchTokenInfo
\* (tokenInfo.ts 384-388) answers from tokenInfoCache without a network read
\* when the key is cached; that answer is delivered in a microtask, before
\* any other event, so its .then is applied here.  A miss is an unsettled
\* read in `tasks`.  `always` is the .then that stores a null result too
\* (lines 748-753), otherwise the result is stored only when it is non-null.
Launch(cnt, always, pass, st) ==
  LET hit  == {key \in TokenKeys : cnt[key] > 0 /\ tokenInfoCache[key] # "absent"}
      miss == {key \in TokenKeys : cnt[key] > 0 /\ tokenInfoCache[key] = "absent"}
  IN [map |-> [key \in TokenKeys |->
                 IF key \in hit /\ (always \/ tokenInfoCache[key] = "info")
                 THEN tokenInfoCache[key] ELSE st.map[key]],
      fetching |-> (st.fetching \ hit) \cup miss,
      tasks |-> st.tasks (+) [t \in {InfoTask(key, always, pass) : key \in miss} |-> cnt[t.key]]]

NoLaunch == [key \in TokenKeys |-> 0]

HasNetwork(chainPath) == chainPath.chain_id \in Networks

\* the tokens the background scan (effect on [formData.paths, networks],
\* lines 840-942) looks at
ScanKeys(doc) ==
  UNION {
    LET chainPath == doc[c] IN
    IF ~HasNetwork(chainPath) THEN {}
    ELSE (IF LooksLikeAddress(chainPath.anchor_token)
          THEN {TokenKey(chainPath.chain_id, chainPath.anchor_token)} ELSE {})
         \cup {TokenKey(chainPath.chain_id, HopAt(doc, k).token_in) :
                 k \in {x \in HopKeys(doc) : x[1] = c /\ HopAt(doc, x).token_in # ""}}
         \cup {TokenKey(chainPath.chain_id, HopAt(doc, k).token_out) :
                 k \in {x \in HopKeys(doc) : x[1] = c /\ HopAt(doc, x).token_out # ""}}
    : c \in 1..Len(doc)}

\* keys the scan starts a fetch for: not truthy in tokenInfoMapRef.current and
\* not in fetchingTokensRef
ScanCnt(doc, map, fetching) ==
  [key \in TokenKeys |->
     IF key \in ScanKeys(doc) /\ map[key] # "info" /\ key \notin fetching THEN 1 ELSE 0]

\* What every setFormData is followed by: the effect on [formData.paths]
\* (lines 826-837: validate every hop, setIsVerified(false)) and the
\* background token-info scan.  verrs and st are validationErrors and
\* [map, fetching, tasks] as the handler left them.
Commit(doc, verrs, st) ==
  LET e == Launch(ScanCnt(doc, st.map, st.fetching), FALSE, 0, st) IN
  /\ formData' = doc
  /\ validationErrors' = ValidateAll(doc, verrs)
  /\ isVerified' = FALSE
  /\ tokenInfoMap' = e.map
  /\ fetchingTokens' = e.fetching
  /\ tasks' = e.tasks

Cur == [map |-> tokenInfoMap, fetching |-> fetchingTokens, tasks |-> tasks]

\* ------------------------------------------------------------------- Init
\* a path as the backend returns it for editing (the `path` prop)
StoredPath ==
  << [chain_id |-> 1, anchor_token |-> "0xA",
      paths |-> << << [pool |-> "0xp1", token_in |-> "0xa", token_out |-> "0xb"] >> >>] >>

InitialPaths == { <<NewChainPath>>, StoredPath }

\* The module-level cache when the form opens: the list page (pages/Paths.tsx,
\* fetchTokenInfoBatch) has resolved the tokens of the paths it shows.
ListPageCache ==
  [key \in TokenKeys |-> IF key[2] \in {"0xa", "0xb"} THEN "info" ELSE "absent"]

PureIdle == [op |-> "none"]

\* State once the form is mounted and the network list has arrived: the
\* mount effects have validated every hop and started the token-info scan.
MountedWith(cache) ==
  /\ validationErrors = ValidateAll(formData, [k \in AllKeys |-> ""])
  /\ chainErrors = [c \in 1..MaxChains |-> ""]
  /\ addressValidationErrors = {}
  /\ verificationErrors = {}
  /\ loadingPools = {}
  /\ tokenInfoCache = cache
  /\ tokenInfoMap = [key \in TokenKeys |->
                       IF key \in ScanKeys(formData) THEN cache[key] ELSE "absent"]
  /\ fetchingTokens = {}
  /\ tasks = EmptyBag
  /\ isVerified = FALSE
  /\ isVerifying = FALSE
  /\ verifyingChainPath = 0
  /\ passes = {}
  /\ verifyAllDoc = <<>>
  /\ submitCount = 0
  /\ submitted = <<>>
  /\ edits = 0
  /\ clicks = 0
  /\ verifiedSinceEdit = "none"
  /\ last = Step("Init", NoKey)

Mounted == MountedWith(ListPageCache)

Init ==
  /\ formData \in InitialPaths
  /\ Mounted
  /\ pureIn = PureIdle
  /\ pureOut = PureIdle

\* ----------------------------------------------------------- user edits
NetworkFirstMsg == "Please select a network (Chain ID) first before adding a pool."
AnchorFirstMsg == "Please set an anchor token first before adding a pool."
NetworkSaveMsg == "Please select a network (Chain ID) before saving."
PoolSaveMsg == "Please add at least one pool before saving."

Edited(op, k) ==
  /\ edits < MaxEdits
  /\ edits' = edits + 1
  /\ verifiedSinceEdit' = "none"
  /\ last' = Step(op, k)

\* what an edit leaves alone besides the fields each handler names
EditFrame ==
  UNCHANGED <<verificationErrors, tokenInfoCache, isVerifying, verifyingChainPath,
              passes, verifyAllDoc, submitCount, submitted, clicks, pureVars>>

handleChainIdChange(index, value) ==
  /\ index \in 1..Len(formData)
  /\ formData[index].chain_id # value
  /\ Edited("ChainIdChange", <<index, 0, 0>>)
  /\ chainErrors' = IF value > 0 THEN [chainErrors EXCEPT ![index] = ""] ELSE chainErrors
  /\ Commit([formData EXCEPT ![index].chain_id = value], validationErrors, Cur)
  /\ UNCHANGED <<addressValidationErrors, loadingPools>>
  /\ EditFrame

\* lines 381-410: the handler's own fetch of the anchor token's info
AnchorCnt(index, value) ==
  LET chainId == formData[index].chain_id
      key == TokenKey(chainId, value)
  IN [x \in TokenKeys |->
        IF /\ value # "" /\ isAddress(Trim(value))
           /\ chainId # 0 /\ chainId \in Networks
           /\ x = key
           /\ tokenInfoMap[key] # "info" /\ key \notin fetchingTokens
        THEN 1 ELSE 0]

\* The handler ends with setTimeout(0): validateTokenFlow(index, poolIndex, 0)
\* for every pool path; it recomputes, from formDataRef.current, keys that
\* the validate-all effect of the same update has just written.
handleAnchorTokenChange(index, value) ==
  /\ index \in 1..Len(formData)
  /\ formData[index].anchor_token # value
  /\ Edited("AnchorTokenChange", <<index, 0, 0>>)
  /\ addressValidationErrors' =
       IF Trim(value) # "" /\ ~isAddress(Trim(value))
       THEN addressValidationErrors \cup {<<"anchor", index, 0, 0>>}
       ELSE addressValidationErrors \ {<<"anchor", index, 0, 0>>}
  /\ chainErrors' =
       IF Trim(value) # "" /\ chainErrors[index] = AnchorFirstMsg
       THEN [chainErrors EXCEPT ![index] = ""] ELSE chainErrors
  /\ Commit([formData EXCEPT ![index].anchor_token = value], validationErrors,
            Launch(AnchorCnt(index, value), FALSE, 0, Cur))
  /\ UNCHANGED loadingPools
  /\ EditFrame

handleAddChainPath ==
  /\ Len(formData) < MaxChains
  /\ Edited("AddChainPath", NoKey)
  /\ Commit(Append(formData, NewChainPath), validationErrors, Cur)
  /\ UNCHANGED <<chainErrors, addressValidationErrors, loadingPools>>
  /\ EditFrame

\* the Remove button is rendered when formData.paths.length > 1 (line 1599)
handleRemoveChainPath(index) ==
  /\ Len(formData) > 1
  /\ index \in 1..Len(formData)
  /\ Edited("RemoveChainPath", <<index, 0, 0>>)
  /\ Commit(RemoveAt(formData, index), validationErrors, Cur)
  /\ UNCHANGED <<chainErrors, addressValidationErrors, loadingPools>>
  /\ EditFrame

\* handleAddPoolPath, lines 444-487
AddPoolPathRejection(chainPath) ==
  IF chainPath.chain_id = 0 THEN NetworkFirstMsg
  ELSE IF Trim(chainPath.anchor_token) = "" THEN AnchorFirstMsg
  ELSE ""

handleAddPoolPath(chainIndex) ==
  /\ chainIndex \in 1..Len(formData)
  /\ LET chainPath == formData[chainIndex] IN
     IF AddPoolPathRejection(chainPath) # ""
     THEN /\ chainErrors' = [chainErrors EXCEPT ![chainIndex] = AddPoolPathRejection(chainPath)]
          /\ edits < MaxEdits
          /\ edits' = edits + 1
          /\ last' = Step("AddPoolPathRejected", <<chainIndex, 0, 0>>)
          /\ UNCHANGED <<formData, validationErrors, isVerified, tokenInfoMap,
                         fetchingTokens, tasks, verifiedSinceEdit>>
     ELSE /\ Len(chainPath.paths) < MaxPools
          /\ Edited("AddPoolPath", <<chainIndex, 0, 0>>)
          /\ chainErrors' = [chainErrors EXCEPT ![chainIndex] = ""]
          /\ Commit([formData EXCEPT ![chainIndex].paths = Append(@, <<EmptyHop>>)],
                    validationErrors, Cur)
  /\ UNCHANGED <<addressValidationErrors, loadingPools>>
  /\ EditFrame

handleRemovePoolPath(chainIndex, poolIndex) ==
  /\ chainIndex \in 1..Len(formData)
  /\ poolIndex \in 1..Len(formData[chainIndex].paths)
  /\ Edited("RemovePoolPath", <<chainIndex, poolIndex, 0>>)
  /\ Commit([formData EXCEPT ![chainIndex].paths = RemoveAt(@, poolIndex)],
            validationErrors, Cur)
  /\ UNCHANGED <<chainErrors, addressValidationErrors, loadingPools>>
  /\ EditFrame

\* handleAddPoolDirection, lines 501-517
handleAddPoolDirection(chainIndex, poolIndex) ==
  /\ chainIndex \in 1..Len(formData)
  /\ poolIndex \in 1..Len(formData[chainIndex].paths)
  /\ Len(formData[chainIndex].paths[poolIndex]) < MaxHops
  /\ Edited("AddPoolDirection", <<chainIndex, poolIndex, 0>>)
  /\ Commit([formData EXCEPT ![chainIndex].paths[poolIndex] = Append(@, EmptyHop)],
            validationErrors, Cur)
  /\ UNCHANGED <<chainErrors, addressValidationErrors, loadingPools>>
  /\ EditFrame

\* the hop's Remove button is rendered when poolPath.length > 1 (line 1811)
handleRemovePoolDirection(chainIndex, poolIndex, directionIndex) ==
  /\ <<chainIndex, poolIndex, directionIndex>> \in HopKeys(formData)
  /\ Len(formData[chainIndex].paths[poolIndex]) > 1
  /\ Edited("RemovePoolDirection", <<chainIndex, poolIndex, directionIndex>>)
  /\ Commit([formData EXCEPT ![chainIndex].paths[poolIndex] = RemoveAt(@, directionIndex)],
            validationErrors, Cur)
  /\ UNCHANGED <<chainErrors, addressValidationErrors, loadingPools>>
  /\ EditFrame

\* handlePoolDirectionChange: a functional update of one field of one hop
handlePoolDirectionChange(doc, k, field, value) ==
  IF k \notin HopKeys(doc) THEN doc
  ELSE SetHop(doc, k, [HopAt(doc, k) EXCEPT ![field] = value])

\* the part of the handler's closure that its continuation reads after the
\* await: the expected predecessor token and the truthiness of tokenInfoMap
\* for the pool's tokens
SnapAnchor(doc, k) == IF k[3] = 1 THEN doc[k[1]].anchor_token ELSE ""
SnapPrev(doc, k) == IF k[3] = 1 THEN "" ELSE HopAt(doc, <<k[1], k[2], k[3] - 1>>).token_out
SnapInfo(chainId, pool) ==
  {key \in {TokenKey(chainId, ResolvedTokens(pool).token0),
            TokenKey(chainId, ResolvedTokens(pool).token1)} : tokenInfoMap[key] = "info"}

\* handlePoolAddressChange up to its await, lines 570-665
handlePoolAddressChange(chainIndex, poolIndex, directionIndex, poolAddress) ==
  LET k == <<chainIndex, poolIndex, directionIndex>>
      fieldKey == <<"pool", chainIndex, poolIndex, directionIndex>>
      withPool == handlePoolDirectionChange(formData, k, "pool", poolAddress)
      cleared == [validationErrors EXCEPT ![k] = ""]
      chainId == formData[chainIndex].chain_id
  IN
  /\ k \in HopKeys(formData)
  /\ HopAt(formData, k).pool # poolAddress
  /\ Edited("PoolAddressChange", k)
  /\ IF Trim(poolAddress) # "" /\ ~isAddress(Trim(poolAddress))
     THEN \* invalid format: flag it, store the text, do not fetch
          /\ addressValidationErrors' = addressValidationErrors \cup {fieldKey}
          /\ Commit(withPool, validationErrors, Cur)
          /\ UNCHANGED loadingPools
     ELSE /\ addressValidationErrors' = addressValidationErrors \ {fieldKey}
          /\ IF ~LooksLikeAddress(poolAddress)
             THEN /\ Commit(IF ShorterThanAddress(poolAddress)
                            THEN handlePoolDirectionChange(
                                   handlePoolDirectionChange(withPool, k, "token_in", ""),
                                   k, "token_out", "")
                            ELSE withPool,
                            cleared, Cur)
                  /\ UNCHANGED loadingPools
             ELSE IF chainId = 0
             THEN /\ Commit(withPool, cleared, Cur)
                  /\ UNCHANGED loadingPools
             ELSE IF chainId \notin Networks
             THEN /\ Commit(withPool, [cleared EXCEPT ![k] = "Network not found for chain ID"], Cur)
                  /\ UNCHANGED loadingPools
             ELSE /\ loadingPools' = loadingPools \cup {k}
                  /\ Commit(withPool, cleared,
                            [Cur EXCEPT !.tasks = @ (+) SetToBag({
                               PoolTask("edit", k, poolAddress, chainId,
                                        SnapAnchor(formData, k), SnapPrev(formData, k),
                                        SnapInfo(chainId, poolAddress), 0)})])
  /\ UNCHANGED chainErrors
  /\ EditFrame

\* ------------------------------------------------- on-chain reads settle
Remove(t) == tasks (-) SetToBag({t})

\* what a settling read leaves alone
SettleFrame ==
  UNCHANGED <<chainErrors, addressValidationErrors, isVerifying, verifyingChainPath,
              passes, verifyAllDoc, submitCount, submitted, edits, clicks,
              verifiedSinceEdit, pureVars>>

\* lines 732-776: info fetches for the two tokens just written; both
\* conditions are evaluated, against the tokenInfoMap the handler closed
\* over, before either fetch is started
DirectCnt(t, o) ==
  LET tokenInKey == TokenKey(t.key[1], o.token_in)
      tokenOutKey == TokenKey(t.key[1], o.token_out)
      shouldFetchIn == tokenInKey \notin t.snapInfo /\ tokenInKey \notin fetchingTokens
      shouldFetchOut == tokenOutKey \notin t.snapInfo /\ tokenOutKey \notin fetchingTokens
  IN [x \in TokenKeys |->
        (IF shouldFetchIn /\ x = tokenInKey THEN 1 ELSE 0)
        + (IF shouldFetchOut /\ x = tokenOutKey THEN 1 ELSE 0)]

\* handlePoolAddressChange after fetchPoolTokens resolved, lines 667-795 and
\* 820-822.  The write addresses the hop by the indices captured at the
\* start.  The sweep scheduled with setTimeout(100) (validateTokenFlow for
\* this hop, the next and the earlier ones, against formDataRef.current)
\* recomputes keys the validate-all effect of this update has written.
PoolResolved(t) ==
  LET tokens == ResolvedTokens(t.pool)
      o == OrientAtSetPool(tokens, t.anchor, t.prev, t.k[3])
      doc == IF t.k \in HopKeys(formData)
             THEN SetHop(formData, t.k, [pool |-> t.pool, token_in |-> o.token_in,
                                         token_out |-> o.token_out])
             ELSE formData
  IN
  /\ t \in BagToSet(tasks) /\ t.kind = "pool" /\ t.site = "edit"
  /\ PoolTokens(t.pool).token0 # ""
  /\ loadingPools' = loadingPools \ {t.k}
  /\ Commit(doc, validationErrors,
            Launch(DirectCnt(t, o), TRUE, 0, [Cur EXCEPT !.tasks = Remove(t)]))
  /\ last' = StepX("PoolResolved", t.k, t.pool)
  /\ UNCHANGED <<verificationErrors, tokenInfoCache>>
  /\ SettleFrame

\* handlePoolAddressChange after fetchPoolTokens threw, lines 796-822
PoolFailed(t) ==
  /\ t \in BagToSet(tasks) /\ t.kind = "pool" /\ t.site = "edit"
  /\ loadingPools' = loadingPools \ {t.k}
  /\ Commit(handlePoolDirectionChange(
              handlePoolDirectionChange(formData, t.k, "token_in", ""), t.k, "token_out", ""),
            [validationErrors EXCEPT ![t.k] = PoolFetchError],
            [Cur EXCEPT !.tasks = Remove(t)])
  /\ last' = StepX("PoolFailed", t.k, t.pool)
  /\ UNCHANGED <<verificationErrors, tokenInfoCache>>
  /\ SettleFrame

\* lines 1172-1230: info fetches for the tokens a Verify has just resolved,
\* each started unless its key is in fetchingTokensRef
NestedCnt(t, o) ==
  LET tokenInKey == TokenKey(t.key[1], o.token_in)
      tokenOutKey == TokenKey(t.key[1], o.token_out)
  IN [x \in TokenKeys |->
        IF x \in {tokenInKey, tokenOutKey} /\ x \notin fetchingTokens THEN 1 ELSE 0]

\* handleVerifyChainPath, .then of fetchPoolTokens, lines 1097-1233.  The
\* fetches started here are pushed onto `promises` after Promise.allSettled
\* took its snapshot of the array, so the pass does not wait for them: they
\* carry the negated id of the pass whose array they were pushed onto.
VerifyPoolResolved(t) ==
  LET tokens == ResolvedTokens(t.pool)
      o == OrientAtVerify(tokens, t.anchor, t.prev, t.k[3])
      doc == IF t.k \in HopKeys(formData)
             THEN SetHop(formData, t.k, [pool |-> t.pool, token_in |-> o.token_in,
                                         token_out |-> o.token_out])
             ELSE formData
  IN
  /\ t \in BagToSet(tasks) /\ t.kind = "pool" /\ t.site = "verify"
  /\ PoolTokens(t.pool).token0 # ""
  /\ loadingPools' = loadingPools \ {t.k}
  /\ Commit(doc, validationErrors,
            Launch(NestedCnt(t, o), FALSE, 0 - t.pass, [Cur EXCEPT !.tasks = Remove(t)]))
  /\ last' = StepX("VerifyPoolResolved", t.k, t.pool)
  /\ UNCHANGED <<verificationErrors, tokenInfoCache>>
  /\ SettleFrame

\* handleVerifyChainPath, .catch of fetchPoolTokens, lines 1234-1259
VerifyPoolFailed(t) ==
  /\ t \in BagToSet(tasks) /\ t.kind = "pool" /\ t.site = "verify"
  /\ tasks' = Remove(t)
  /\ verificationErrors' = verificationErrors \cup {t.k}
  /\ loadingPools' = loadingPools \ {t.k}
  /\ last' = StepX("VerifyPoolFailed", t.k, t.pool)
  /\ UNCHANGED <<formData, validationErrors, isVerified, tokenInfoMap, tokenInfoCache,
                 fetchingTokens>>
  /\ SettleFrame

\* fetchTokenInfo after its name()/symbol() reads settled (tokenInfo.ts
\* 421-449: cache the info, or cache null on any error) followed by the
\* caller's .then
InfoSettled(t, result) ==
  /\ t \in BagToSet(tasks) /\ t.kind = "info"
  /\ tasks' = Remove(t)
  /\ tokenInfoCache' = [tokenInfoCache EXCEPT ![t.key] = result]
  /\ tokenInfoMap' = IF result = "info" \/ t.always
                     THEN [tokenInfoMap EXCEPT ![t.key] = result] ELSE tokenInfoMap
  /\ fetchingTokens' = fetchingTokens \ {t.key}
  /\ last' = Step("InfoSettled", NoKey)
  /\ UNCHANGED <<formData, validationErrors, isVerified, verificationErrors, loadingPools>>
  /\ SettleFrame

\* --------------------------------------------------------------- Verify
FreshPass(ps) == CHOOSE i \in 1..(Cardinality(ps) + 1) : \A q \in ps : q.id # i

\* the hops of chain path c for which handleVerifyChainPath fetches the
\* pool's tokens (lines 1082-1087)
UnresolvedHops(doc, c) ==
  {k \in HopKeys(doc) :
     /\ k[1] = c
     /\ LooksLikeAddress(HopAt(doc, k).pool)
     /\ (HopAt(doc, k).token_in = "" \/ HopAt(doc, k).token_out = "")}

\* number of forced fetchTokenInfo calls per key: the anchor token (lines
\* 1039-1073) and every token_in / token_out already set (lines 1264-1333)
ForceCnt(doc, c) ==
  LET chainPath == doc[c]
      hops == {k \in HopKeys(doc) : k[1] = c}
  IN [x \in TokenKeys |->
        (IF LooksLikeAddress(chainPath.anchor_token)
            /\ x = TokenKey(chainPath.chain_id, chainPath.anchor_token) THEN 1 ELSE 0)
        + Cardinality({k \in hops : HopAt(doc, k).token_in # ""
                                     /\ x = TokenKey(chainPath.chain_id, HopAt(doc, k).token_in)})
        + Cardinality({k \in hops : HopAt(doc, k).token_out # ""
                                     /\ x = TokenKey(chainPath.chain_id, HopAt(doc, k).token_out)})]

VerifyState ==
  [map |-> tokenInfoMap, fetching |-> fetchingTokens, tasks |-> tasks,
   loading |-> loadingPools, verrs |-> verificationErrors, passes |-> passes,
   verifying |-> verifyingChainPath]

\* handleVerifyChainPath(chainIndex) up to `await Promise.allSettled`, run
\* against the formData of the render that created the handler (doc)
StartVerify(doc, chainIndex, all, st) ==
  LET chainPath == doc[chainIndex]
      id == FreshPass(st.passes)
      unresolved == UnresolvedHops(doc, chainIndex)
      l == Launch(ForceCnt(doc, chainIndex), FALSE, id,
                  [map |-> st.map, fetching |-> st.fetching, tasks |-> st.tasks])
  IN IF ~HasNetwork(chainPath) THEN st
     ELSE [map |-> l.map,
           fetching |-> l.fetching,
           tasks |-> l.tasks (+) SetToBag({
                       PoolTask("verify", k, HopAt(doc, k).pool, chainPath.chain_id,
                                SnapAnchor(doc, k), SnapPrev(doc, k), {}, id) : k \in unresolved}),
           loading |-> st.loading \cup unresolved,
           verrs |-> {k \in st.verrs : k[1] # chainIndex},
           passes |-> st.passes \cup {[id |-> id, c |-> chainIndex, all |-> all]},
           verifying |-> chainIndex]

RECURSIVE StartVerifyFrom(_, _, _)
\* the loop of handleVerifyAll, lines 1379-1381
StartVerifyFrom(doc, i, st) ==
  IF i > Len(doc) THEN st
  ELSE StartVerifyFrom(doc, i + 1, StartVerify(doc, i, TRUE, st))

ApplyVerify(st) ==
  /\ tokenInfoMap' = st.map
  /\ fetchingTokens' = st.fetching
  /\ tasks' = st.tasks
  /\ loadingPools' = st.loading
  /\ verificationErrors' = st.verrs
  /\ passes' = st.passes
  /\ verifyingChainPath' = st.verifying

\* the Verify button of a chain path (disabled while verifyingChainPath === index)
handleVerifyChainPath(chainIndex) ==
  /\ chainIndex \in 1..Len(formData)
  /\ verifyingChainPath # chainIndex
  /\ clicks < MaxClicks
  /\ clicks' = clicks + 1
  /\ ApplyVerify(StartVerify(formData, chainIndex, FALSE, VerifyState))
  /\ last' = Step("VerifyChainPath", <<chainIndex, 0, 0>>)
  /\ UNCHANGED <<formData, validationErrors, chainErrors, addressValidationErrors,
                 tokenInfoCache, isVerified, isVerifying, verifyAllDoc, submitCount,
                 submitted, edits, verifiedSinceEdit, pureVars>>

\* handleVerifyChainPath after Promise.allSettled and the 200 ms wait: finally
VerifyChainPathDone(pass) ==
  /\ pass \in passes
  /\ \A t \in BagToSet(tasks) : t.pass # pass.id
  /\ passes' = passes \ {pass}
  /\ verifyingChainPath' = 0
  /\ last' = Step("VerifyChainPathDone", <<pass.c, 0, 0>>)
  /\ UNCHANGED <<formData, validationErrors, chainErrors, addressValidationErrors,
                 verificationErrors, loadingPools, tokenInfoMap, tokenInfoCache,
                 fetchingTokens, tasks, isVerified, isVerifying, verifyAllDoc, submitCount,
                 submitted, edits, clicks, verifiedSinceEdit, pureVars>>

\* lines 1388-1429: every anchor token and every token_in / token_out of
\* doc has a truthy entry in tokenInfoMapRef.current
allTokensHaveInfo(doc, map) ==
  \A c \in 1..Len(doc) :
    LET chainPath == doc[c] IN
    /\ LooksLikeAddress(chainPath.anchor_token)
         => InfoOf(map, TokenKey(chainPath.chain_id, chainPath.anchor_token)) = "info"
    /\ \A k \in {x \in HopKeys(doc) : x[1] = c} :
         /\ HopAt(doc, k).token_in # ""
              => InfoOf(map, TokenKey(chainPath.chain_id, HopAt(doc, k).token_in)) = "info"
         /\ HopAt(doc, k).token_out # ""
              => InfoOf(map, TokenKey(chainPath.chain_id, HopAt(doc, k).token_out)) = "info"

\* handleVerifyAll after `await Promise.all(allPromises)` and the 100 ms
\* wait, lines 1388-1445.  The check walks formData.paths of the closure.
VerifyAllDone ==
  /\ isVerifying
  /\ \A pass \in passes : ~pass.all
  /\ isVerified' = IF allTokensHaveInfo(verifyAllDoc, tokenInfoMap) THEN TRUE ELSE isVerified
  /\ verifiedSinceEdit' = IF verifiedSinceEdit = "verifying"
                               /\ allTokensHaveInfo(verifyAllDoc, tokenInfoMap)
                            THEN "verified" ELSE "none"
  /\ isVerifying' = FALSE
  /\ verifyAllDoc' = <<>>
  /\ last' = Step("VerifyAllDone", NoKey)
  /\ UNCHANGED <<formData, validationErrors, chainErrors, addressValidationErrors,
                 verificationErrors, loadingPools, tokenInfoMap, tokenInfoCache,
                 fetchingTokens, tasks, passes, verifyingChainPath, submitCount,
                 submitted, edits, clicks, pureVars>>

\* --------------------------------------------------------------- Submit
\* lines 1456-1494
SubmitAddressErrors(doc) ==
  {<<"anchor", c, 0, 0>> : c \in {x \in 1..Len(doc) :
       Trim(doc[x].anchor_token) # "" /\ ~isAddress(Trim(doc[x].anchor_token))}}
  \cup {<<"pool", k[1], k[2], k[3]>> : k \in {x \in HopKeys(doc) :
       Trim(HopAt(doc, x).pool) # "" /\ ~isAddress(Trim(HopAt(doc, x).pool))}}
  \cup {<<"token_in", k[1], k[2], k[3]>> : k \in {x \in HopKeys(doc) :
       Trim(HopAt(doc, x).token_in) # "" /\ ~isAddress(Trim(HopAt(doc, x).token_in))}}
  \cup {<<"token_out", k[1], k[2], k[3]>> : k \in {x \in HopKeys(doc) :
       Trim(HopAt(doc, x).token_out) # "" /\ ~isAddress(Trim(HopAt(doc, x).token_out))}}

\* lines 1501-1517
SubmitChainErrors(doc) ==
  [c \in 1..MaxChains |->
     IF c > Len(doc) THEN ""
     ELSE IF doc[c].chain_id = 0 /\ Len(doc[c].paths) = 0
          THEN NetworkSaveMsg \o " " \o PoolSaveMsg
     ELSE IF doc[c].chain_id = 0 THEN NetworkSaveMsg
     ELSE IF Len(doc[c].paths) = 0 THEN PoolSaveMsg
     ELSE ""]

NoChainErrors == [c \in 1..MaxChains |-> ""]

\* handleSubmit's early returns, lines 1496-1533: which way a Submit goes
SubmitOutcome_NoGate(doc, verified) ==
  IF SubmitAddressErrors(doc) # {} THEN "addressErrors"
  ELSE IF SubmitChainErrors(doc) # NoChainErrors THEN "chainErrors"
  ELSE "save"

SubmitOutcome(doc, verified) ==
  IF SubmitAddressErrors(doc) # {} THEN "addressErrors"
  ELSE IF SubmitChainErrors(doc) # NoChainErrors THEN "chainErrors"
  ELSE IF ~verified THEN "verify"
  ELSE "save"

\* The submit button is disabled while isVerifying (line 2042) and the
\* browser does not dispatch the submit event while a `required` anchor
\* input (line 1717) is empty.
handleSubmit ==
  LET outcome == SubmitOutcome(formData, isVerified) IN
  /\ ~isVerifying
  /\ \A c \in 1..Len(formData) : formData[c].anchor_token # ""
  /\ clicks < MaxClicks
  /\ clicks' = clicks + 1
  /\ last' = Step("Submit", NoKey)
  /\ chainErrors' = IF outcome = "chainErrors" THEN SubmitChainErrors(formData)
                    ELSE NoChainErrors
  /\ addressValidationErrors' = IF outcome = "addressErrors" THEN SubmitAddressErrors(formData)
                                ELSE addressValidationErrors
  /\ IF outcome = "verify"
     THEN \* handleVerifyAll up to `await Promise.all`, lines 1372-1383
          /\ isVerifying' = TRUE
          /\ isVerified' = FALSE
          /\ verifyAllDoc' = formData
          /\ verifiedSinceEdit' = "verifying"
          /\ ApplyVerify(StartVerifyFrom(formData, 1, VerifyState))
     ELSE UNCHANGED <<isVerified, isVerifying, verifyAllDoc, tokenInfoMap, fetchingTokens,
                      tasks, loadingPools, verificationErrors, passes, verifyingChainPath,
                      verifiedSinceEdit>>
  /\ IF outcome = "save"
     THEN /\ submitCount' = submitCount + 1
          /\ submitted' = formData
     ELSE UNCHANGED <<submitCount, submitted>>
  /\ UNCHANGED <<formData, validationErrors, tokenInfoCache, edits, pureVars>>

\* ------------------------------------------------------------------ Next
Next ==
  \/ \E c \in 1..MaxChains, v \in Networks : handleChainIdChange(c, v)
  \/ \E c \in 1..MaxChains, v \in AnchorInputs : handleAnchorTokenChange(c, v)
  \/ handleAddChainPath
  \/ \E c \in 1..MaxChains : handleRemoveChainPath(c)
  \/ \E c \in 1..MaxChains : handleAddPoolPath(c)
  \/ \E c \in 1..MaxChains, p \in 1..MaxPools : handleRemovePoolPath(c, p)
  \/ \E c \in 1..MaxChains, p \in 1..MaxPools : handleAddPoolDirection(c, p)
  \/ \E k \in AllKeys : handleRemovePoolDirection(k[1], k[2], k[3])
  \/ \E k \in AllKeys, a \in PoolInputs : handlePoolAddressChange(k[1], k[2], k[3], a)
  \/ \E t \in BagToSet(tasks) : PoolResolved(t)
  \/ \E t \in BagToSet(tasks) : PoolFailed(t)
  \/ \E t \in BagToSet(tasks) : VerifyPoolResolved(t)
  \/ \E t \in BagToSet(tasks) : VerifyPoolFailed(t)
  \/ \E t \in BagToSet(tasks), r \in {"info", "null"} : InfoSettled(t, r)
  \/ \E c \in 1..MaxChains : handleVerifyChainPath(c)
  \/ \E pass \in passes : VerifyChainPathDone(pass)
  \/ VerifyAllDone
  \/ handleSubmit

Spec == Init /\ [][Next]_vars

\* --------------------------------------------- the form on a longer path
\* a stored path whose pool path has two hops: out through pool 0xp1 and
\* back through the same pool
StoredTwoHops ==
  << [chain_id |-> 1, anchor_token |-> "0xA",
      paths |-> << << [pool |-> "0xp1", token_in |-> "0xa", token_out |-> "0xb"],
                      [pool |-> "0xp1", token_in |-> "0xb", token_out |-> "0xa"] >> >>] >>

InitTwoHops ==
  /\ formData = StoredTwoHops
  /\ Mounted
  /\ pureIn = PureIdle
  /\ pureOut = PureIdle

SpecTwoHops == InitTwoHops /\ [][Next]_vars

\* ------------------------------------------- orientation, as a function
\* token0 / token1 of a pool and the tokens a chain path or hop may hold
OrientTokens == {"0xa", "0xb", "0xB", "0xc"}
ExpectedInputs == {"", "0xa", "0xA", "0xb", "0xB", "0xc"}

OrientInputs ==
  [op : {"orient"},
   tokens : [token0 : OrientTokens, token1 : OrientTokens],
   anchor_token : ExpectedInputs,
   prev_token_out : ExpectedInputs,
   directionIndex : 1..MaxHops]

InitOrient ==
  /\ formData = <<NewChainPath>>
  /\ Mounted
  /\ pureIn \in OrientInputs
  /\ pureOut = [op |-> "orient", setPool |-> EmptyHop, verify |-> EmptyHop]

\* the orientation of handlePoolAddressChange applied to the input
OrientSetPoolStep ==
  /\ pureOut.setPool = EmptyHop
  /\ pureOut' = [pureOut EXCEPT !.setPool =
       OrientAtSetPool(pureIn.tokens, pureIn.anchor_token, pureIn.prev_token_out,
                       pureIn.directionIndex) @@ EmptyHop]
  /\ UNCHANGED <<pureIn, formVars>>

\* the orientation of handleVerifyChainPath applied to the input
OrientVerifyStep ==
  /\ pureOut.verify = EmptyHop
  /\ pureOut' = [pureOut EXCEPT !.verify =
       OrientAtVerify(pureIn.tokens, pureIn.anchor_token, pureIn.prev_token_out,
                      pureIn.directionIndex) @@ EmptyHop]
  /\ UNCHANGED <<pureIn, formVars>>

NextOrient == OrientSetPoolStep \/ OrientVerifyStep

SpecOrient == InitOrient /\ [][NextOrient]_vars

\* ---------------------------------- token-flow validation, as a function
\* chain paths with one pool path of 1..MaxHops hops
ValidateHops == [pool : {"0xp1"}, token_in : ExpectedInputs \ {"0xB"},
                 token_out : ExpectedInputs \ {"0xB"}]
ValidatePoolPaths == UNION {[1..n -> ValidateHops] : n \in 1..MaxHops}
ValidateDocs ==
  {<<[chain_id |-> 1, anchor_token |-> a, paths |-> <<pp>>]>> :
     a \in AnchorInputs, pp \in ValidatePoolPaths}

InitValidate ==
  /\ formData = <<NewChainPath>>
  /\ Mounted
  /\ pureIn \in [op : {"validate"}, doc : ValidateDocs]
  /\ pureOut = [op |-> "validate", verrs |-> [k \in AllKeys |-> "unset"]]

\* validateTokenFlow(chainIndex, poolIndex, directionIndex) on the input
validateTokenFlowStep(k) ==
  /\ k \in HopKeys(pureIn.doc)
  /\ pureOut.verrs[k] = "unset"
  /\ pureOut' = [pureOut EXCEPT !.verrs = validateTokenFlow(pureIn.doc, @, k)]
  /\ UNCHANGED <<pureIn, formVars>>

\* the effect on [formData.paths] on the input
ValidateAllStep ==
  /\ \E k \in HopKeys(pureIn.doc) : pureOut.verrs[k] = "unset"
  /\ pureOut' = [pureOut EXCEPT !.verrs = ValidateAll(pureIn.doc, @)]
  /\ UNCHANGED <<pureIn, formVars>>

NextValidate ==
  \/ \E k \in AllKeys : validateTokenFlowStep(k)
  \/ ValidateAllStep

SpecValidate == InitValidate /\ [][NextValidate]_vars

\* ------------------------------------------- token info, as a module
\* utils/tokenInfo.ts with its callers that do not force a lookup: the
\* form's guarded fetch and the list page's batches.  pureOut carries the
\* number of on-chain name/symbol reads issued per key (reads), the list
\* page's tokenInfoMap (pageMap), the batches in flight (batches) and what
\* the last completed fetchTokenInfo call gave back (returned).
MaxReads == 2

\* addresses fetchTokenInfo is called with ("0x12" is malformed)
LookupInputs == {"", "0x12", "0xA", "0xb"}
BatchKeys == {<<1, "0xa">>, <<1, "0xb">>}

NoReturn == [address |-> "", value |-> "none", threw |-> FALSE]

\* fetchTokenInfo, lines 375-394: the try block up to its await
fetchTokenInfoTry(tokenAddress, hasRpc, cache) ==
  LET cacheKey == TokenKey(1, tokenAddress) IN
  IF ~LooksLikeAddress(tokenAddress) THEN [kind |-> "return", value |-> "null"]
  ELSE IF InfoOf(cache, cacheKey) # "absent"
       THEN [kind |-> "return", value |-> InfoOf(cache, cacheKey)]
  ELSE IF ~hasRpc THEN [kind |-> "throw", value |-> "null"]
  ELSE [kind |-> "await", value |-> "null"]

\* fetchTokenInfo without its catch block: the error leaves the function
fetchTokenInfoEnd_NoCatch(tokenAddress, kind, value, cache) ==
  IF kind = "throw"
  THEN [value |-> "null", threw |-> TRUE, cache |-> cache]
  ELSE [value |-> value, threw |-> FALSE,
        cache |-> IF kind = "read" THEN [cache EXCEPT ![TokenKey(1, tokenAddress)] = "info"]
                  ELSE cache]

\* fetchTokenInfo, lines 434-449: how a call ends.  kind is "return" (a
\* return of the try block before the await), "read" (the awaited reads
\* gave name and symbol) or "throw" (an error raised in the try block)
fetchTokenInfoEnd(tokenAddress, kind, value, cache) ==
  LET cacheKey == TokenKey(1, tokenAddress) IN
  IF kind = "return" THEN [value |-> value, threw |-> FALSE, cache |-> cache]
  ELSE IF kind = "read"
       THEN [value |-> "info", threw |-> FALSE, cache |-> [cache EXCEPT ![cacheKey] = "info"]]
  ELSE [value |-> "null", threw |-> FALSE, cache |-> [cache EXCEPT ![cacheKey] = "null"]]

InitTokenInfo ==
  /\ formData = <<NewChainPath>>
  /\ MountedWith([key \in TokenKeys |-> "absent"])
  /\ pureIn = [op |-> "tokenInfo"]
  /\ pureOut = [op |-> "tokenInfo",
                reads |-> [key \in TokenKeys |-> 0],
                pageMap |-> [key \in TokenKeys |-> "absent"],
                batches |-> EmptyBag,
                returned |-> NoReturn]

TokenInfoFrame ==
  UNCHANGED <<formData, validationErrors, chainErrors, addressValidationErrors,
              verificationErrors, loadingPools, isVerified, isVerifying,
              verifyingChainPath, passes, verifyAllDoc, submitCount, submitted,
              edits, clicks, verifiedSinceEdit, last, pureIn>>

\* what the .then of a form lookup does with the value (lines 861-868)
FormThen(key, value) ==
  /\ tokenInfoMap' = IF value = "info" /\ key \in TokenKeys
                     THEN [tokenInfoMap EXCEPT ![key] = "info"] ELSE tokenInfoMap
  /\ fetchingTokens' = fetchingTokens \ {key}

\* a lookup of the form that is not forced (the background scan, lines
\* 853-878): skipped when the key has info in tokenInfoMapRef or is in
\* fetchingTokensRef
FormLookup(tokenAddress, hasRpc) ==
  LET key == TokenKey(1, tokenAddress)
      try == fetchTokenInfoTry(tokenAddress, hasRpc, tokenInfoCache)
  IN /\ tokenAddress # ""
     /\ InfoOf(tokenInfoMap, key) # "info"
     /\ key \notin fetchingTokens
     /\ IF try.kind = "await"
        THEN /\ tasks' = tasks (+) SetToBag({InfoTask(key, FALSE, 0)})
             /\ fetchingTokens' = fetchingTokens \cup {key}
             /\ pureOut' = [pureOut EXCEPT !.reads[key] = @ + 1]
             /\ UNCHANGED <<tokenInfoCache, tokenInfoMap>>
        ELSE LET end == fetchTokenInfoEnd(tokenAddress, try.kind, try.value, tokenInfoCache)
             IN /\ tokenInfoCache' = end.cache
                /\ FormThen(key, end.value)
                /\ pureOut' = [pureOut EXCEPT !.returned =
                     [address |-> tokenAddress, value |-> end.value, threw |-> end.threw]]
                /\ UNCHANGED tasks
     /\ TokenInfoFrame

\* the awaited name()/symbol() reads of a fetchTokenInfo call settle
ReadSettled(t, ok) ==
  /\ t \in BagToSet(tasks)
  /\ t.kind = "info"
  /\ tasks' = Remove(t)
  /\ LET end == fetchTokenInfoEnd(t.key[2], IF ok THEN "read" ELSE "throw", "null",
                                  tokenInfoCache)
     IN /\ tokenInfoCache' = end.cache
        /\ FormThen(t.key, end.value)
        /\ pureOut' = [pureOut EXCEPT !.returned =
             [address |-> t.key[2], value |-> end.value, threw |-> end.threw]]
  /\ TokenInfoFrame

\* an effect of the list page (pages/Paths.tsx 51-83, 86-135) calls
\* fetchTokenInfoBatch for the keys without info in the page's
\* tokenInfoMap; fetchTokenInfoBatch (lines 456-530) issues one multicall
\* with name and symbol of every token it was given
PageBatch(keys) ==
  /\ keys # {}
  /\ \A key \in keys : pureOut.pageMap[key] # "info" /\ pureOut.reads[key] < MaxReads
  /\ pureOut' = [pureOut EXCEPT
       !.reads = [key \in TokenKeys |-> IF key \in keys THEN @[key] + 1 ELSE @[key]],
       !.batches = @ (+) SetToBag({keys})]
  /\ UNCHANGED <<tokenInfoCache, tokenInfoMap, fetchingTokens, tasks>>
  /\ TokenInfoFrame

\* fetchTokenInfoBatch after its multicall settled, lines 532-567, and the
\* page's setTokenInfoMap: failed holds the tokens whose name or symbol slot
\* is not a success (all of them when the multicall threw)
BatchSettled(keys, failed) ==
  LET results == [key \in keys |-> IF key \in failed THEN "null" ELSE "info"] IN
  /\ keys \in BagToSet(pureOut.batches)
  /\ failed \subseteq keys
  /\ tokenInfoCache' = [key \in TokenKeys |->
                          IF key \in keys THEN results[key] ELSE tokenInfoCache[key]]
  /\ pureOut' = [pureOut EXCEPT
       !.batches = @ (-) SetToBag({keys}),
       !.pageMap = [key \in TokenKeys |-> IF key \in keys THEN results[key] ELSE @[key]]]
  /\ UNCHANGED <<tokenInfoMap, fetchingTokens, tasks>>
  /\ TokenInfoFrame

NextTokenInfo ==
  \/ \E a \in LookupInputs, hasRpc \in BOOLEAN : FormLookup(a, hasRpc)
  \/ \E t \in BagToSet(tasks), ok \in BOOLEAN : ReadSettled(t, ok)
  \/ \E keys \in SUBSET BatchKeys : PageBatch(keys)
  \/ \E keys \in SUBSET BatchKeys, failed \in SUBSET BatchKeys : BatchSettled(keys, failed)

SpecTokenInfo == InitTokenInfo /\ [][NextTokenInfo]_vars

\* ------------------------------------------- pool tokens, as a module
\* utils/poolTokens.ts fetchPoolTokens, one action per await.  pureIn is the
\* call (the address and the number of RPC URLs of the network), pureOut
\* the position in the function (pc, i: index of the endpoint in use),
\* lastError, the requests sent so far (calls) and how the call ended.
MaxRpcs == 3

PoolAddressInputs == {"", "0x12", "0xp1"}

PoolInputsOf ==
  [op : {"pool"}, poolAddress : PoolAddressInputs, rpcs : 0..MaxRpcs]

\* message of the error a request to endpoint i fails with
RpcError(i) == "request to rpc " \o ToString(i) \o " failed"
NoRpcMessage == "No RPC URL found for network"
NotAContractMessage == "Address is not a contract on chain"
InvalidTokensMessage == "Contract returned invalid token addresses"

\* token0() / token1() as endpoint i answers them (checksummed spelling)
PairAt(i) ==
  IF i % 2 = 1 THEN [token0 |-> "0xA", token1 |-> "0xb"]
  ELSE [token0 |-> "0xB", token1 |-> "0xC"]

NoResult == [kind |-> "none", token0 |-> "", token1 |-> "", message |-> ""]
ReturnedNull == [NoResult EXCEPT !.kind = "null"]
ReturnedPair(pair) == [NoResult EXCEPT !.kind = "pair", !.token0 = pair.token0,
                                       !.token1 = pair.token1]
Thrown(message) == [NoResult EXCEPT !.kind = "throw", !.message = message]

\* the pair as the endpoint spelled it
LowerPair_AsIs(pair) == pair

\* lines 116-119, 153-156: both addresses lower-cased
LowerPair(pair) == [token0 |-> Lower(pair.token0), token1 |-> Lower(pair.token1)]

\* the final error without the last endpoint's message
AllFailedMessage_Generic(lastError) ==
  "Failed to fetch pool tokens from all RPC endpoints. Last error: Unknown error"

\* lines 170-172: the final error
AllFailedMessage(lastError) ==
  "Failed to fetch pool tokens from all RPC endpoints. Last error: "
    \o (IF lastError = "" THEN "Unknown error" ELSE lastError)

\* a request goes out to the endpoint in use
Call(st, name) ==
  [st EXCEPT !.calls = Append(@, [rpc |-> st.i, call |-> name]), !.pc = name]

\* lines 158-166 and 169-173: the per-endpoint catch stores the error and
\* the loop goes on with the next URL, or ends and the final error is thrown
NextRpc(st, rpcs, message) ==
  IF st.i < rpcs
  THEN Call([st EXCEPT !.lastError = message, !.i = @ + 1, !.token0 = ""], "getBytecode")
  ELSE [st EXCEPT !.lastError = message, !.pc = "done",
                  !.result = Thrown(AllFailedMessage(message))]

\* a failed multicall handled by the per-endpoint catch
AfterMulticallFailed_NextRpc(st, rpcs) ==
  NextRpc(st, rpcs, "Multicall returned invalid results")

\* lines 124-137: the inner catch falls back to readContract token0
AfterMulticallFailed(st, rpcs) == Call(st, "token0")

InitPool ==
  /\ formData = <<NewChainPath>>
  /\ Mounted
  /\ pureIn \in PoolInputsOf
  /\ pureOut = [op |-> "pool", pc |-> "entry", i |-> 0, lastError |-> "",
                calls |-> <<>>, token0 |-> "", result |-> NoResult]

PoolFrame == UNCHANGED <<formVars, pureIn>>

\* fetchPoolTokens up to its first await, lines 31-76
fetchPoolTokens ==
  /\ pureIn.op = "pool"
  /\ pureOut.pc = "entry"
  /\ pureOut' =
       IF ~LooksLikeAddress(pureIn.poolAddress)
       THEN [pureOut EXCEPT !.pc = "done", !.result = ReturnedNull]
       ELSE IF pureIn.rpcs = 0
            THEN [pureOut EXCEPT !.pc = "done", !.result = Thrown(NoRpcMessage)]
            ELSE Call([pureOut EXCEPT !.i = 1], "getBytecode")
  /\ PoolFrame

\* lines 77-82: getBytecode settled; "empty" is undefined or "0x"
getBytecodeSettled(outcome) ==
  /\ pureIn.op = "pool"
  /\ pureOut.pc = "getBytecode"
  /\ pureOut' =
       CASE outcome = "code" -> Call(pureOut, "multicall")
         [] outcome = "empty" -> NextRpc(pureOut, pureIn.rpcs, NotAContractMessage)
         [] OTHER -> NextRpc(pureOut, pureIn.rpcs, RpcError(pureOut.i))
  /\ PoolFrame

\* lines 91-137: multicall settled; "failure" is a slot whose status is not
\* success, "empty" a success slot without a result
multicallSettled(outcome) ==
  /\ pureIn.op = "pool"
  /\ pureOut.pc = "multicall"
  /\ pureOut' =
       IF outcome = "ok"
       THEN [pureOut EXCEPT !.pc = "done",
                            !.result = ReturnedPair(LowerPair(PairAt(pureOut.i)))]
       ELSE AfterMulticallFailed(pureOut, pureIn.rpcs)
  /\ PoolFrame

\* lines 132-144: readContract token0 settled, readContract token1 follows
token0Settled(outcome) ==
  /\ pureIn.op = "pool"
  /\ pureOut.pc = "token0"
  /\ pureOut' =
       CASE outcome = "ok" ->
              Call([pureOut EXCEPT !.token0 = PairAt(pureOut.i).token0], "token1")
         [] outcome = "empty" -> Call([pureOut EXCEPT !.token0 = ""], "token1")
         [] OTHER -> NextRpc(pureOut, pureIn.rpcs, RpcError(pureOut.i))
  /\ PoolFrame

\* lines 139-157: readContract token1 settled
token1Settled(outcome) ==
  /\ pureIn.op = "pool"
  /\ pureOut.pc = "token1"
  /\ LET token1 == IF outcome = "ok" THEN PairAt(pureOut.i).token1 ELSE "" IN
     pureOut' =
       IF outcome = "throws" THEN NextRpc(pureOut, pureIn.rpcs, RpcError(pureOut.i))
       ELSE IF pureOut.token0 = "" \/ token1 = ""
            THEN NextRpc(pureOut, pureIn.rpcs, InvalidTokensMessage)
            ELSE [pureOut EXCEPT !.pc = "done",
                    !.result = ReturnedPair(LowerPair([token0 |-> pureOut.token0,
                                                       token1 |-> token1]))]
  /\ PoolFrame

NextPool ==
  \/ fetchPoolTokens
  \/ \E outcome \in {"code", "empty", "throws"} : getBytecodeSettled(outcome)
  \/ \E outcome \in {"ok", "throws", "failure", "empty"} : multicallSettled(outcome)
  \/ \E outcome \in {"ok", "throws", "empty"} : token0Settled(outcome)
  \/ \E outcome \in {"ok", "throws", "empty"} : token1Settled(outcome)

SpecPool == InitPool /\ [][NextPool]_vars

\* ------------------------------------------ token info batch, as a call
\* utils/tokenInfo.ts fetchTokenInfoBatch as one call: pureIn holds the
\* tokens asked for and whether network 1 has an RPC URL (chain 2 is not in
\* the network list); pureOut the returned record (result), the outcome of
\* the multicall (threw, failed: the slots whose status is not success) and
\* whether the promise rejected (rejected).
BatchTokens == {<<"0xA", 1>>, <<"0xb", 1>>, <<"0xc", 1>>, <<"0xa", 2>>}
BatchSlots == {"name", "symbol"}

\* `${chainId}-${address.toLowerCase()}`
BatchKeyOf(token) == <<token[2], Lower(token[1])>>
BatchResultKeys == {BatchKeyOf(token) : token \in BatchTokens}

BatchInputs == [op : {"batch"}, tokens : SUBSET BatchTokens, rpc : BOOLEAN]

\* lines 478-483: the chains a multicall is sent for
BatchChainsCalled(tokens, rpc) ==
  {chainId \in {token[2] : token \in tokens} : chainId \in Networks /\ rpc}

\* lines 532-567: the entries written for the tokens of one chain
BatchEntries(chainTokens, threw, failed) ==
  [key \in {BatchKeyOf(token) : token \in chainTokens} |->
     IF threw THEN "null"
     ELSE IF \E token \in chainTokens :
               BatchKeyOf(token) = key /\ \A slot \in BatchSlots : <<token, slot>> \notin failed
          THEN "info" ELSE "null"]

InitBatch ==
  /\ formData = <<NewChainPath>>
  /\ MountedWith([key \in TokenKeys |-> "absent"])
  /\ pureIn \in BatchInputs
  /\ pureOut = [op |-> "batch", pc |-> "entry",
                result |-> [key \in BatchResultKeys |-> "absent"],
                threw |-> FALSE, failed |-> {}, rejected |-> FALSE]

BatchFrame ==
  UNCHANGED <<formData, validationErrors, chainErrors, addressValidationErrors,
              verificationErrors, loadingPools, tokenInfoMap, fetchingTokens, tasks,
              isVerified, isVerifying, verifyingChainPath, passes, verifyAllDoc,
              submitCount, submitted, edits, clicks, verifiedSinceEdit, last, pureIn>>

\* fetchTokenInfoBatch up to the await of the multicall, lines 460-530: with
\* no chain to call, Promise.all resolves and result is returned as it is
fetchTokenInfoBatch ==
  /\ pureIn.op = "batch"
  /\ pureOut.pc = "entry"
  /\ pureOut' = [pureOut EXCEPT !.pc =
       IF BatchChainsCalled(pureIn.tokens, pureIn.rpc) = {} THEN "done" ELSE "multicall"]
  /\ UNCHANGED tokenInfoCache
  /\ BatchFrame

\* the multicall of chain 1 settled, lines 532-572
batchMulticallSettled(threw, failed) ==
  /\ pureIn.op = "batch"
  /\ pureOut.pc = "multicall"
  /\ LET chainTokens == {token \in pureIn.tokens : token[2] = 1}
         entries == BatchEntries(chainTokens, threw, failed)
     IN /\ failed \subseteq (IF threw THEN {} ELSE chainTokens \X BatchSlots)
        /\ pureOut' = [pureOut EXCEPT
             !.pc = "done", !.threw = threw, !.failed = failed,
             !.result = [key \in BatchResultKeys |->
                           IF key \in DOMAIN entries THEN entries[key] ELSE @[key]]]
        /\ tokenInfoCache' = [key \in TokenKeys |->
                                IF key \in DOMAIN entries THEN entries[key]
                                ELSE tokenInfoCache[key]]
  /\ BatchFrame

NextBatch ==
  \/ fetchTokenInfoBatch
  \/ \E threw \in BOOLEAN, failed \in SUBSET (BatchTokens \X BatchSlots) :
       batchMulticallSettled(threw, failed)

SpecBatch == InitBatch /\ [][NextBatch]_vars

\* ------------------------------------------------------- hooks/useApi.ts
\* The useApi hook of one component: pureIn holds the `immediate` argument,
\* pureOut the hook's state {data, loading, error}, isMountedRef, the life
\* cycle of the component (phase), the number of apiCall promises pending
\* (pending) and whether a call settled (lateSettled) or refetch was invoked
\* (lateRefetch) after the component was unmounted.
MaxCalls == 2

ApiResults == {"d1", "d2"}

UseApiInputs == [op : {"useApi"}, immediate : BOOLEAN]

\* setState without the isMountedRef test
UpdateIfMounted_Always(isMounted, state, new) == new

\* lines 52-54, 57-61, 73-75, 77-81: `if (isMountedRef.current) setState(...)`
UpdateIfMounted(isMounted, state, new) == IF isMounted THEN new ELSE state

InitUseApi ==
  /\ formData = <<NewChainPath>>
  /\ Mounted
  /\ pureIn \in UseApiInputs
  /\ pureOut = [op |-> "useApi",
                state |-> [data |-> "null", loading |-> pureIn.immediate, error |-> "null"],
                isMounted |-> TRUE, phase |-> "rendered", pending |-> 0,
                lateSettled |-> FALSE, lateRefetch |-> FALSE]

\* the mount effects, lines 39-44 and 66-86
useApiMount ==
  /\ pureIn.op = "useApi"
  /\ pureOut.phase = "rendered"
  /\ pureOut' = IF pureIn.immediate
                THEN [pureOut EXCEPT !.phase = "mounted", !.isMounted = TRUE,
                                     !.state = [@ EXCEPT !.loading = TRUE, !.error = "null"],
                                     !.pending = @ + 1]
                ELSE [pureOut EXCEPT !.phase = "mounted", !.isMounted = TRUE]
  /\ PoolFrame

\* the cleanup of the effect at lines 39-44
useApiUnmount ==
  /\ pureIn.op = "useApi"
  /\ pureOut.phase = "mounted"
  /\ pureOut' = [pureOut EXCEPT !.phase = "unmounted", !.isMounted = FALSE]
  /\ PoolFrame

\* refetch up to its await, lines 46-50; the callback may be held and
\* invoked by code that outlives the component
refetch ==
  /\ pureIn.op = "useApi"
  /\ pureOut.phase \in {"mounted", "unmounted"}
  /\ pureOut.pending < MaxCalls
  /\ pureOut' = IF ~pureOut.isMounted
                THEN [pureOut EXCEPT !.lateRefetch = TRUE]
                ELSE [pureOut EXCEPT !.state = [@ EXCEPT !.loading = TRUE, !.error = "null"],
                                     !.pending = @ + 1]
  /\ PoolFrame

\* apiCallRef.current() resolved, lines 50-54 and 72-75
apiCallResolved(result) ==
  /\ pureIn.op = "useApi"
  /\ pureOut.pending > 0
  /\ pureOut' = [pureOut EXCEPT
       !.pending = @ - 1,
       !.state = UpdateIfMounted(pureOut.isMounted, @,
                   [data |-> result, loading |-> FALSE, error |-> "null"]),
       !.lateSettled = @ \/ pureOut.phase = "unmounted"]
  /\ PoolFrame

\* apiCallRef.current() rejected, lines 55-62 and 76-82
apiCallRejected ==
  /\ pureIn.op = "useApi"
  /\ pureOut.pending > 0
  /\ pureOut' = [pureOut EXCEPT
       !.pending = @ - 1,
       !.state = UpdateIfMounted(pureOut.isMounted, @,
                   [data |-> "null", loading |-> FALSE, error |-> "message"]),
       !.lateSettled = @ \/ pureOut.phase = "unmounted"]
  /\ PoolFrame

\* setData, lines 88-90, called by the component's handlers
setData(data) ==
  /\ pureIn.op = "useApi"
  /\ pureOut.phase = "mounted"
  /\ pureOut' = [pureOut EXCEPT !.state = [@ EXCEPT !.data = data]]
  /\ PoolFrame

NextUseApi ==
  \/ useApiMount
  \/ useApiUnmount
  \/ refetch
  \/ \E result \in ApiResults : apiCallResolved(result)
  \/ apiCallRejected
  \/ \E data \in ApiResults \cup {"null"} : setData(data)

SpecUseApi == InitUseApi /\ [][NextUseApi]_vars

\* ================================================================ claims
SubmitStep == clicks' = clicks + 1 /\ last'.op = "Submit"

\* handleSubmit reaches its isVerified test: no address error, every chain
\* path has a network and at least one pool
StructurallyValid(doc) ==
  /\ SubmitAddressErrors(doc) = {}
  /\ SubmitChainErrors(doc) = NoChainErrors

\* C1 (as claimed): Submit on a structurally valid, unverified document
\* starts Verify all and does not call onSubmit; onSubmit is called only
\* while Verified, once per Submit; and a Submit made after a Verify all
\* succeeded, with no edit since, calls onSubmit.
C1_AsClaimed ==
  [][ /\ (SubmitStep /\ ~isVerified) => submitCount' = submitCount
      /\ (SubmitStep /\ ~isVerified /\ StructurallyValid(formData)) => isVerifying'
      /\ submitCount' # submitCount => (isVerified /\ submitCount' = submitCount + 1)
      /\ (SubmitStep /\ verifiedSinceEdit = "verified") => submitCount' = submitCount + 1 ]_vars

\* C1 (amended): as above, but the second Submit calls onSubmit when the
\* Verified flag still stands, i.e. no edit and no pool-token write-back
\* happened since the verification succeeded.
C1_SubmitGating ==
  [][ /\ (SubmitStep /\ ~isVerified) => submitCount' = submitCount
      /\ (SubmitStep /\ ~isVerified /\ StructurallyValid(formData)) => isVerifying'
      /\ submitCount' # submitCount => (isVerified /\ submitCount' = submitCount + 1)
      /\ (SubmitStep /\ isVerified /\ StructurallyValid(formData))
           => submitCount' = submitCount + 1 ]_vars

\* a second Submit has handed the document over after a successful Verify all
C1_Witness == last.op = "Submit" /\ submitCount = 1 /\ clicks = 2 /\ isVerified

\* the token a hop's token_in is expected to equal: the anchor token for
\* the first hop, the previous hop's token_out otherwise
ExpectedTokenIn(doc, k) ==
  IF k[3] = 1 THEN doc[k[1]].anchor_token
  ELSE HopAt(doc, <<k[1], k[2], k[3] - 1>>).token_out

EditOps == {"ChainIdChange", "AnchorTokenChange", "AddChainPath", "RemoveChainPath",
            "AddPoolPath", "RemovePoolPath", "AddPoolDirection", "RemovePoolDirection",
            "PoolAddressChange"}

\* C2: while Verified, no hop with both tokens set has a token_in that
\* differs (ignoring case) from its expected token, i.e. Verify all never
\* sets Verified while some hop has a token-flow mismatch.
C2_VerifiedFlowConsistent ==
  isVerified =>
    \A k \in HopKeys(formData) :
      (HopAt(formData, k).token_in # "" /\ HopAt(formData, k).token_out # "")
        => Lower(HopAt(formData, k).token_in) = Lower(ExpectedTokenIn(formData, k))

\* C3: while Verified, every hop has a pool address and non-empty, valid
\* token_in and token_out.
C3_VerifiedHopsResolved ==
  isVerified =>
    \A k \in HopKeys(formData) :
      /\ HopAt(formData, k).pool # ""
      /\ HopAt(formData, k).token_in # "" /\ isAddress(HopAt(formData, k).token_in)
      /\ HopAt(formData, k).token_out # "" /\ isAddress(HopAt(formData, k).token_out)

\* every anchor token and every token_in / token_out of doc that is set has
\* a non-null TokenInfo in map
EveryTokenHasInfo(doc, map) ==
  \A c \in 1..Len(doc) :
    /\ Trim(doc[c].anchor_token) # ""
         => InfoOf(map, TokenKey(doc[c].chain_id, doc[c].anchor_token)) = "info"
    /\ \A k \in {x \in HopKeys(doc) : x[1] = c} :
         \A a \in {HopAt(doc, k).token_in, HopAt(doc, k).token_out} \ {""} :
           InfoOf(map, TokenKey(doc[c].chain_id, a)) = "info"

\* C4: when a Verify all pass (during which no edit was made) finishes by
\* setting Verified, every anchor token and every hop token of the document
\* as it stands then, tokens resolved during the pass included, has a
\* non-null TokenInfo.
C4_VerifiedOnlyWithInfo ==
  (last.op = "VerifyAllDone" /\ isVerified /\ verifiedSinceEdit = "verified")
    => EveryTokenHasInfo(formData, tokenInfoMap)

\* C5: an edit leaves Verified false, and Verified is true only if a Verify
\* all pass that started after the last edit has completed successfully.
C5_EditInvalidates ==
  /\ last.op \in EditOps => ~isVerified
  /\ isVerified => verifiedSinceEdit = "verified"

\* the token the orientation rule is given
ExpectedOf(in) ==
  IF in.directionIndex = 1 THEN in.anchor_token ELSE in.prev_token_out

\* token1 first when the expected token equals token1 ignoring case, token0
\* first in every other case
OrientRule(tokens, E) ==
  IF E # "" /\ Lower(E) = Lower(tokens.token1)
  THEN [pool |-> "", token_in |-> tokens.token1, token_out |-> tokens.token0]
  ELSE [pool |-> "", token_in |-> tokens.token0, token_out |-> tokens.token1]

\* C6: both orientation sites write token_in = token1, token_out = token0
\* when the expected token equals token1 ignoring case and token_in =
\* token0, token_out = token1 otherwise, and so agree with each other.
C6_Orientation ==
  pureIn.op = "orient" =>
    /\ pureOut.setPool # EmptyHop
         => pureOut.setPool = OrientRule(pureIn.tokens, ExpectedOf(pureIn))
    /\ pureOut.verify # EmptyHop
         => pureOut.verify = OrientRule(pureIn.tokens, ExpectedOf(pureIn))
    /\ (pureOut.setPool # EmptyHop /\ pureOut.verify # EmptyHop)
         => pureOut.setPool = pureOut.verify

\* both sites have oriented a pool whose token1 equals the expected token
\* only when case is ignored, and have swapped
C6_Witness ==
  /\ pureIn.op = "orient"
  /\ pureIn.tokens.token0 # pureIn.tokens.token1
  /\ ExpectedOf(pureIn) # pureIn.tokens.token1
  /\ pureOut.setPool.token_in = pureIn.tokens.token1
  /\ pureOut.verify.token_in = pureIn.tokens.token1

\* the mismatch message naming the expected address E for hop k
MismatchMessage(k, E) ==
  IF k[3] = 1 THEN "Token In must match Anchor Token (" \o E \o ")"
  ELSE "Token In must match previous Token Out (" \o E \o ")"

\* C7 as stated: the message of a hop with both tokens set is the mismatch
\* message naming the expected address exactly when token_in differs,
\* ignoring case, from the expected token, and empty otherwise.
C7_AsClaimed ==
  pureIn.op = "validate" =>
    \A k \in HopKeys(pureIn.doc) :
      pureOut.verrs[k] # "unset" =>
        LET hop == HopAt(pureIn.doc, k)
            E == ExpectedTokenIn(pureIn.doc, k)
        IN pureOut.verrs[k] =
             IF hop.token_in = "" \/ hop.token_out = "" THEN ""
             ELSE IF Lower(hop.token_in) # Lower(E) THEN MismatchMessage(k, E)
             ELSE ""

\* C7: the message of a hop is empty when its token_in or token_out is
\* empty; otherwise it is the mismatch message naming the expected address
\* exactly when the expected token is set and token_in differs from it
\* ignoring case, and empty when they are equal or no token is expected.
C7_ValidateHop ==
  pureIn.op = "validate" =>
    \A k \in HopKeys(pureIn.doc) :
      pureOut.verrs[k] # "unset" =>
        LET hop == HopAt(pureIn.doc, k)
            E == ExpectedTokenIn(pureIn.doc, k)
        IN pureOut.verrs[k] =
             IF hop.token_in = "" \/ hop.token_out = "" THEN ""
             ELSE IF E # "" /\ Lower(hop.token_in) # Lower(E) THEN MismatchMessage(k, E)
             ELSE ""

\* on a chain path without anchor token, a first hop with both tokens set
\* has been validated without a message and the hop after it, whose
\* token_in differs from the first hop's token_out, with the mismatch
\* message naming that token_out
C7_Witness ==
  /\ pureIn.op = "validate"
  /\ pureIn.doc[1].anchor_token = ""
  /\ HopAt(pureIn.doc, <<1, 1, 1>>).token_in = "0xa"
  /\ HopAt(pureIn.doc, <<1, 1, 1>>).token_out = "0xb"
  /\ pureOut.verrs[<<1, 1, 1>>] = ""
  /\ <<1, 1, 2>> \in HopKeys(pureIn.doc)
  /\ HopAt(pureIn.doc, <<1, 1, 2>>).token_in = "0xc"
  /\ HopAt(pureIn.doc, <<1, 1, 2>>).token_out = "0xa"
  /\ pureOut.verrs[<<1, 1, 2>>] = MismatchMessage(<<1, 1, 2>>, "0xb")

\* C8: once the failure handler of a pool-address resolution and the
\* re-validation it triggers have run, the hop's tokens are empty and its
\* validation message is the error text.
C8_FailureMessageKept ==
  (last.op = "PoolFailed" /\ last.k \in HopKeys(formData)) =>
    /\ HopAt(formData, last.k).token_in = "" /\ HopAt(formData, last.k).token_out = ""
    /\ validationErrors[last.k] = PoolFetchError

\* C9: a resolution whose pool address is no longer the one in the hop's
\* pool field (the operator has entered another one since) writes nothing
\* to the hop when it settles.
C9_LatestWins ==
  [][ \A k \in HopKeys(formData) :
        ( /\ last'.op \in {"PoolResolved", "PoolFailed"}
          /\ last'.k = k
          /\ HopAt(formData, k).pool # last'.x )
        => (k \in HopKeys(formData') /\ HopAt(formData', k) = HopAt(formData, k)) ]_vars

\* the pool path of chain path c grew by exactly one pool path of one empty hop
PoolPathAppended(c) ==
  formData' = [formData EXCEPT ![c].paths = Append(@, <<EmptyHop>>)]

Unconfigured(chainPath) == chainPath.chain_id = 0 \/ chainPath.anchor_token = ""

\* adding a pool path: rejected (document unchanged, chain error set) when
\* the chain path has no network or no anchor token, and otherwise one pool
\* path of one empty hop is appended and the chain path's error cleared
PoolPathAddGuarded ==
  \A c \in 1..Len(formData) :
    /\ (edits' = edits + 1 /\ last' = Step("AddPoolPathRejected", <<c, 0, 0>>))
         => /\ Unconfigured(formData[c])
            /\ formData' = formData
            /\ chainErrors'[c] # ""
    /\ (edits' = edits + 1 /\ last' = Step("AddPoolPath", <<c, 0, 0>>))
         => /\ ~Unconfigured(formData[c])
            /\ PoolPathAppended(c)
            /\ chainErrors'[c] = ""

\* adding a hop to a pool path of a chain path that has no network or no
\* anchor token leaves the document unchanged and sets the chain error
HopAddGuarded ==
  \A c \in 1..Len(formData) :
    (edits' = edits + 1 /\ last'.op = "AddPoolDirection" /\ last'.k[1] = c
       /\ Unconfigured(formData[c]))
      => (formData' = formData /\ chainErrors'[c] # "")

\* C10: adding a pool path or a hop to a chain path whose chain_id is 0 or
\* whose anchor token is empty is rejected with the document unchanged and
\* a chain error set; with both set, adding a pool path appends one pool
\* path of one empty hop and clears the chain error.
C10_AddGuarded == [][PoolPathAddGuarded /\ HopAddGuarded]_vars

\* the guard of handleAddPoolPath alone
C10_PoolPathAddGuarded == [][PoolPathAddGuarded]_vars

\* a chain path that has no network selected, no anchor token or no pool
Offending(chainPath) ==
  \/ chainPath.chain_id = 0
  \/ Trim(chainPath.anchor_token) = ""
  \/ Len(chainPath.paths) = 0

\* C11: a Submit of a document with a chain path that has no network, no
\* anchor token or no pool sets a chain error for every such chain path,
\* starts no verification, issues no on-chain read and does not call
\* onSubmit.
C11_SubmitBlocked ==
  [][ (SubmitStep /\ \E c \in 1..Len(formData) : Offending(formData[c]))
        => /\ \A c \in 1..Len(formData) : Offending(formData[c]) => chainErrors'[c] # ""
           /\ ~isVerifying'
           /\ tasks' = tasks
           /\ submitCount' = submitCount ]_vars

\* C12: for every key, the triggers that do not force a lookup (the form's
\* guarded fetch, the list page's batches) issue at most one on-chain
\* name/symbol read.
C12_OneReadPerKey ==
  pureIn.op = "tokenInfo" => \A key \in TokenKeys : pureOut.reads[key] <= 1

\* the on-chain name/symbol reads in flight for a key
ReadsInFlight(bag, key) ==
  LET ts == {t \in BagToSet(bag) : t.kind = "info" /\ t.key = key}
      RECURSIVE Sum(_)
      Sum(S) == IF S = {} THEN 0
                ELSE LET t == CHOOSE x \in S : TRUE IN CopiesIn(t, bag) + Sum(S \ {t})
  IN Sum(ts)

\* C13: a manual Verify of a chain path with a network and an anchor token
\* that looks like an address issues a new on-chain read for the anchor
\* token, whether or not its info is already cached.
C13_VerifyForcesRead ==
  [][ \A c \in 1..Len(formData) :
        (/\ last'.op = "VerifyChainPath"
         /\ last'.k = <<c, 0, 0>>
         /\ HasNetwork(formData[c])
         /\ LooksLikeAddress(formData[c].anchor_token))
        => LET key == TokenKey(formData[c].chain_id, formData[c].anchor_token)
           IN ReadsInFlight(tasks', key) > ReadsInFlight(tasks, key) ]_vars

\* C14: a successful token info in the cache is never changed by a lookup
\* that is not a manual Verify: no later single or batched lookup replaces
\* it with the failed marker.
C14_CachedInfoKept ==
  [][ pureIn.op = "tokenInfo"
        => \A key \in TokenKeys :
             tokenInfoCache[key] = "info" => tokenInfoCache'[key] = "info" ]_vars

\* C20: fetchTokenInfo never throws.  For a malformed address it returns null
\* without a network call and without touching the cache; when no RPC URL is
\* configured or the on-chain read fails it returns null and the cache holds
\* the failed marker under (chain, lower-cased address).
C20_NeverThrows ==
  [][ pureIn.op = "tokenInfo" =>
      /\ ~pureOut'.returned.threw
      /\ \A a \in LookupInputs :
           (~LooksLikeAddress(a) /\ \E hasRpc \in BOOLEAN : FormLookup(a, hasRpc))
           => /\ pureOut'.returned = [address |-> a, value |-> "null", threw |-> FALSE]
              /\ tokenInfoCache' = tokenInfoCache
              /\ tasks' = tasks
              /\ pureOut'.reads = pureOut.reads
      /\ \A a \in LookupInputs :
           (/\ LooksLikeAddress(a)
            /\ tokenInfoCache[TokenKey(1, a)] = "absent"
            /\ FormLookup(a, FALSE))
           => /\ pureOut'.returned = [address |-> a, value |-> "null", threw |-> FALSE]
              /\ tokenInfoCache'[TokenKey(1, a)] = "null"
              /\ tasks' = tasks
      /\ \A t \in BagToSet(tasks) :
           ReadSettled(t, FALSE)
           => /\ pureOut'.returned.value = "null"
              /\ tokenInfoCache'[t.key] = "null" ]_vars

\* the one read issued for the token typed as "0xA" failed: null came back
\* and the cache holds the failed marker under the lower-cased key
C20_Witness ==
  /\ pureIn.op = "tokenInfo"
  /\ pureOut.returned = [address |-> "0xa", value |-> "null", threw |-> FALSE]
  /\ pureOut.reads[<<1, "0xa">>] = 1
  /\ tokenInfoCache[<<1, "0xa">>] = "null"

\* the pair of endpoint i in lower case
LowerCasedPairAt(i) ==
  IF i % 2 = 1 THEN [token0 |-> "0xa", token1 |-> "0xb"]
  ELSE [token0 |-> "0xb", token1 |-> "0xc"]

\* the requests sent to endpoint i, in order
CallsTo(calls, i) == SelectSeq(calls, LAMBDA c : c.rpc = i)
CallNames(calls, i) == [j \in 1..Len(CallsTo(calls, i)) |-> CallsTo(calls, i)[j].call]

\* the endpoints are used in list order, each in one uninterrupted run that
\* starts with getBytecode
InListOrder(calls) ==
  /\ Len(calls) > 0 => calls[1] = [rpc |-> 1, call |-> "getBytecode"]
  /\ \A j \in 1..(Len(calls) - 1) :
       IF calls[j + 1].call = "getBytecode"
       THEN calls[j + 1].rpc = calls[j].rpc + 1
       ELSE calls[j + 1].rpc = calls[j].rpc

\* C15: fetchPoolTokens uses the RPC endpoints strictly in list order, each
\* at most once; the first success ends the call with that endpoint's pair,
\* both addresses lower-cased, no error and no request to a later endpoint,
\* also when it is the last endpoint that succeeds after all others failed.
C15_EndpointOrder ==
  /\ [](pureIn.op = "pool" =>
          /\ InListOrder(pureOut.calls)
          /\ pureOut.result.kind = "pair" =>
               /\ pureOut.pc = "done"
               /\ pureOut.result =
                    ReturnedPair(LowerCasedPairAt(pureOut.calls[Len(pureOut.calls)].rpc)))
  /\ [][ pureIn.op = "pool" =>
          /\ pureOut.pc = "done" => pureOut' = pureOut
          /\ multicallSettled("ok") =>
               /\ pureOut'.result = ReturnedPair(LowerCasedPairAt(pureOut.i))
               /\ pureOut'.calls = pureOut.calls
          /\ (token1Settled("ok") /\ pureOut.token0 # "") =>
               /\ pureOut'.result = ReturnedPair(LowerCasedPairAt(pureOut.i))
               /\ pureOut'.calls = pureOut.calls ]_vars

\* three endpoints, the first two failed and the third answered
C15_Witness ==
  /\ pureIn.op = "pool"
  /\ pureIn.rpcs = 3
  /\ CallNames(pureOut.calls, 1) = <<"getBytecode">>
  /\ CallNames(pureOut.calls, 2) = <<"getBytecode", "multicall", "token0">>
  /\ CallNames(pureOut.calls, 3) = <<"getBytecode", "multicall">>
  /\ pureOut.result = [kind |-> "pair", token0 |-> "0xa", token1 |-> "0xb", message |-> ""]

\* C16: when an endpoint reports no bytecode at the pool address the call
\* fails at once with the not-a-contract error and sends no further request.
C16_NotAContractFailsFast ==
  [][ (pureIn.op = "pool" /\ getBytecodeSettled("empty"))
        => /\ pureOut'.result = Thrown(NotAContractMessage)
           /\ pureOut'.calls = pureOut.calls ]_vars

\* the step leaves endpoint i: the next endpoint is contacted or the call
\* ends with the final error
LeavesEndpoint ==
  /\ pureOut.pc \in {"getBytecode", "multicall", "token0", "token1"}
  /\ \/ pureOut'.i = pureOut.i + 1
     \/ pureOut'.result.kind = "throw"

\* C17 as stated: once the multicall of an endpoint failed, both individual
\* reads, token0 then token1, are issued on that endpoint before it is left.
C17_AsClaimed ==
  [][ (pureIn.op = "pool" /\ LeavesEndpoint
         /\ Len(CallNames(pureOut.calls, pureOut.i)) >= 2)
        => CallNames(pureOut.calls, pureOut.i)
             = <<"getBytecode", "multicall", "token0", "token1">> ]_vars

\* C17: when the multicall of an endpoint throws, or a slot is not a success
\* or is empty, the next request is token0 on the same endpoint; token1
\* follows on the same endpoint once token0 has answered; the endpoint is
\* left only after an individual read threw or both have answered and one
\* answer was empty.
C17_Fallback ==
  [][ pureIn.op = "pool" =>
      /\ \A outcome \in {"throws", "failure", "empty"} :
           multicallSettled(outcome)
           => /\ pureOut'.calls = Append(pureOut.calls, [rpc |-> pureOut.i, call |-> "token0"])
              /\ pureOut'.result.kind = "none"
      /\ \A outcome \in {"ok", "empty"} :
           token0Settled(outcome)
           => /\ pureOut'.calls = Append(pureOut.calls, [rpc |-> pureOut.i, call |-> "token1"])
              /\ pureOut'.result.kind = "none"
      /\ (LeavesEndpoint /\ Len(CallNames(pureOut.calls, pureOut.i)) >= 2)
           => \/ /\ CallNames(pureOut.calls, pureOut.i) = <<"getBytecode", "multicall", "token0">>
                 /\ token0Settled("throws")
              \/ /\ CallNames(pureOut.calls, pureOut.i)
                      = <<"getBytecode", "multicall", "token0", "token1">>
                 /\ \/ token1Settled("throws")
                    \/ token1Settled("empty")
                    \/ token1Settled("ok") /\ pureOut.token0 = "" ]_vars

\* the multicall of endpoint 1 failed, token0 and token1 were read on
\* endpoint 1, and only then endpoint 2 was contacted
C17_Witness ==
  /\ pureIn.op = "pool"
  /\ pureOut.calls = <<[rpc |-> 1, call |-> "getBytecode"], [rpc |-> 1, call |-> "multicall"],
                       [rpc |-> 1, call |-> "token0"], [rpc |-> 1, call |-> "token1"],
                       [rpc |-> 2, call |-> "getBytecode"]>>

\* C18: when every endpoint failed the call ends with an error whose message
\* carries the message of the error of the last endpoint tried, and never
\* with a pair.
C18_AllEndpointsFailed ==
  /\ [](pureIn.op = "pool" /\ pureIn.rpcs > 0 /\ pureOut.result.kind = "throw"
          => /\ pureOut.i = pureIn.rpcs
             /\ \A i \in 1..pureIn.rpcs : Len(CallsTo(pureOut.calls, i)) > 0
             /\ pureOut.lastError # ""
             /\ pureOut.result.message =
                  "Failed to fetch pool tokens from all RPC endpoints. Last error: "
                    \o pureOut.lastError)
  /\ [][ (pureIn.op = "pool" /\ pureOut.i = pureIn.rpcs) =>
          /\ (\/ getBytecodeSettled("throws")
              \/ token0Settled("throws")
              \/ token1Settled("throws"))
             => /\ pureOut'.result.kind = "throw"
                /\ pureOut'.lastError = RpcError(pureIn.rpcs)
          /\ getBytecodeSettled("empty")
             => /\ pureOut'.result.kind = "throw"
                /\ pureOut'.lastError = NotAContractMessage
          /\ (token1Settled("empty") \/ (token1Settled("ok") /\ pureOut.token0 = ""))
             => /\ pureOut'.result.kind = "throw"
                /\ pureOut'.lastError = InvalidTokensMessage ]_vars

\* two endpoints: the first had no bytecode, the request to the second
\* failed, and the error names the failure of the second
C18_Witness ==
  /\ pureIn.op = "pool"
  /\ pureIn.rpcs = 2
  /\ CallNames(pureOut.calls, 1) = <<"getBytecode">>
  /\ CallNames(pureOut.calls, 2) = <<"getBytecode", "multicall", "token0">>
  /\ pureOut.result = [kind |-> "throw", token0 |-> "", token1 |-> "",
       message |-> "Failed to fetch pool tokens from all RPC endpoints. Last error: request to rpc 2 failed"]

\* C19: for a pool address that is not a well-formed address the call sends
\* no request and ends with an error, not with a returned value.
C19_InvalidInputFails ==
  (pureIn.op = "pool" /\ pureOut.pc = "done" /\ ~LooksLikeAddress(pureIn.poolAddress))
    => /\ pureOut.calls = <<>>
       /\ pureOut.result.kind = "throw"

\* C21: fetchTokenInfoBatch never throws and returns an entry for every
\* requested token: the info when both of its slots succeeded, the failed
\* marker otherwise, whatever the slots of the other tokens are.
C21_EntryForEveryToken ==
  (pureIn.op = "batch" /\ pureOut.pc = "done")
    => /\ ~pureOut.rejected
       /\ \A token \in pureIn.tokens :
            pureOut.result[BatchKeyOf(token)] =
              IF ~pureOut.threw /\ \A slot \in BatchSlots : <<token, slot>> \notin pureOut.failed
              THEN "info" ELSE "null"

\* C22: a per-chain Verify finishes only after every fetch it launched has
\* settled, the token info fetches started once a hop's pool tokens resolved
\* during the pass included.
C22_VerifyWaitsForAll ==
  [][ \A pass \in passes :
        (last'.op = "VerifyChainPathDone" /\ passes' = passes \ {pass})
        => \A t \in BagToSet(tasks) : t.pass # pass.id /\ t.pass # 0 - pass.id ]_vars

\* C23: a failed token info read is recoverable: clicking Verify on the
\* chain path again issues a fresh on-chain read for every token of the
\* chain path whose earlier read failed.
C23_VerifyRetriesFailedRead ==
  [][ \A c \in 1..Len(formData) :
        (/\ last'.op = "VerifyChainPath"
         /\ last'.k = <<c, 0, 0>>
         /\ HasNetwork(formData[c]))
        => \A key \in TokenKeys :
             (ForceCnt(formData, c)[key] > 0 /\ tokenInfoCache[key] = "null")
             => ReadsInFlight(tasks', key) > ReadsInFlight(tasks, key) ]_vars

\* validateHop for hop k of doc
ValidateHopRule(doc, k) ==
  LET hop == HopAt(doc, k)
      E == ExpectedTokenIn(doc, k)
  IN IF hop.token_in = "" \/ hop.token_out = "" THEN ""
     ELSE IF E # "" /\ Lower(hop.token_in) # Lower(E) THEN MismatchMessage(k, E)
     ELSE ""

Malformed(s) == s # "" /\ ~isAddress(s)

\* doc holds a malformed anchor token, pool address, token_in or token_out
HoldsMalformed(doc) ==
  \/ \E c \in 1..Len(doc) : Malformed(doc[c].anchor_token)
  \/ \E k \in HopKeys(doc) :
       \/ Malformed(HopAt(doc, k).pool)
       \/ Malformed(HopAt(doc, k).token_in)
       \/ Malformed(HopAt(doc, k).token_out)

\* C25: onSubmit is never called with a document that holds a non-empty
\* anchor token, pool address, token_in or token_out that is not a
\* syntactically valid address.
C25_NoMalformedSaved ==
  [][ submitCount' > submitCount => ~HoldsMalformed(submitted') ]_vars

\* C26: after the component is unmounted, a call that completes (with a
\* result or an error) and a refetch that is invoked leave the hook's
\* {data, loading, error} as they are.
C26_NoUpdateAfterUnmount ==
  [][ (pureIn.op = "useApi" /\ pureOut.phase = "unmounted")
        => pureOut'.state = pureOut.state ]_vars

\* a call settled and refetch was invoked after the unmount, and the state
\* still shows the load that was pending when the component went away
C26_Witness ==
  /\ pureIn.op = "useApi"
  /\ pureOut.phase = "unmounted"
  /\ pureOut.lateSettled
  /\ pureOut.lateRefetch
  /\ pureOut.pending = 0
  /\ pureOut.state = [data |-> "null", loading |-> TRUE, error |-> "null"]

\* C27: a pool-token result is written only to the hop its resolution was
\* started for: when a hop at or before its index was removed from the pool
\* path while the read was in flight, the result that then arrives changes
\* no hop of the document.
C27_WriteBackToOwnHop ==
  [][ \A t \in BagToSet(tasks) :
        (/\ t.kind = "pool"
         /\ last.op = "RemovePoolDirection"
         /\ last.k[1] = t.k[1] /\ last.k[2] = t.k[2] /\ last.k[3] <= t.k[3]
         /\ last'.op \in {"PoolResolved", "VerifyPoolResolved"}
         /\ last'.k = t.k /\ last'.x = t.pool)
        => formData' = formData ]_vars

\* C28: when resolved tokens are written to a hop, the orientation is the
\* one the rule gives for the expected token of the document as it is when
\* the write happens: the current anchor token for the first hop, the
\* predecessor's current token_out otherwise.
C28_OrientAtWriteTime ==
  [][ \A t \in BagToSet(tasks) :
        (/\ t.kind = "pool"
         /\ t.k \in HopKeys(formData)
         /\ last'.op \in {"PoolResolved", "VerifyPoolResolved"}
         /\ last'.k = t.k /\ last'.x = t.pool)
        => LET o == OrientRule(ResolvedTokens(t.pool), ExpectedTokenIn(formData, t.k))
           IN /\ HopAt(formData', t.k).token_in = o.token_in
              /\ HopAt(formData', t.k).token_out = o.token_out ]_vars

\* C29: while a per-chain Verify of chain path i is in flight,
\* verifyingChainPath identifies i.
C29_VerifyingIdentifiesChain ==
  pureIn.op = "none" => \A pass \in passes : verifyingChainPath = pass.c

\* C30: a key is in the in-flight set exactly while at least one token info
\* fetch the form started for that key is unsettled.
C30_InFlightSetAccurate ==
  pureIn.op = "none" =>
    \A key \in TokenKeys : key \in fetchingTokens <=> ReadsInFlight(tasks, key) > 0

====
